---- MODULE Spec2Model ----
(***************************************************************************)
(* validateMedication (src/lib/quick-reference-database/validation/        *)
(* runtime.ts): schema validation through QuickReferenceMedicationSchema   *)
(* .safeParse, then two business-rule checks on the validated data.        *)
(*                                                                         *)
(* Every invocation is a caller p walking through the statements of the    *)
(* function.  The arrays `errors` and `warnings` live in a heap of cells   *)
(* so that "allocated per call" is something the model can get wrong.      *)
(* The schema itself is not part of the function: safeParse may answer     *)
(* with any success (carrying any validated record) or any failure         *)
(* (carrying any non-empty issue list), but it answers the same way when   *)
(* it is asked again about the same unmodified input.                      *)
(***************************************************************************)
EXTENDS Integers, Sequences, FiniteSets, TLC

\* ------------------------------------------------------------------ bounds
MaxProfiles == 2      \* longest dosingProfiles array in a validated record
MaxAge == 1           \* ages range over 0..MaxAge
MaxIssues == 2        \* longest issue list of a schema failure

\* ------------------------------------------------------- optional values
\* `undefined` is the empty tuple, a present value v is <<v>>.
None == <<>>
Some(v) == <<v>>
defined(o) == Len(o) > 0
Opt(S) == {None} \cup {Some(v) : v \in S}
SeqUpTo(S, n) == UNION {[1..k -> S] : k \in 0..n}

\* ---------------------------------------------------------------- records
Ages == 0..MaxAge
Profiles == [minAge : Opt(Ages), maxAge : Opt(Ages)]
\* an array element: a profile, or undefined (the element the `profile &&`
\* guard of line 28 is written for)
Elements == Opt(Profiles)
CategoryLists == {None, Some(<<>>), Some(<<"pain">>)}
Records ==
  [dosingProfiles : Opt(SeqUpTo(Elements, MaxProfiles)),
   complaintCategories : CategoryLists]

Prof(lo, hi) == Some([minAge |-> lo, maxAge |-> hi])

\* The raw arguments callers pass.  The function hands them to safeParse and
\* never reads them itself, so a few representative ones suffice: a clean
\* record, one with an inverted age range and no categories, one with an
\* inverted and a proper range and an empty category list, one with an age
\* range of width zero.
Inputs ==
  { [dosingProfiles |-> None, complaintCategories |-> Some(<<"pain">>)],
    [dosingProfiles |-> Some(<<Prof(Some(1), Some(0))>>),
     complaintCategories |-> None],
    [dosingProfiles |-> Some(<<Prof(Some(1), Some(0)), Prof(Some(0), Some(1))>>),
     complaintCategories |-> Some(<<>>)],
    [dosingProfiles |-> Some(<<Prof(Some(0), Some(0))>>),
     complaintCategories |-> Some(<<"pain">>)] }

\* ----------------------------------------------------------- schema issues
Key(s) == [isNum |-> FALSE, str |-> s, num |-> 0]
Index(n) == [isNum |-> TRUE, str |-> "", num |-> n]
Issue(path, message) == [path |-> path, message |-> message]
Issues ==
  { Issue(<<Key("name")>>, "Required"),
    Issue(<<Key("dosingProfiles"), Index(0), Key("minAge")>>, "Expected number"),
    Issue(<<>>, "Expected object") }
IssueLists == SeqUpTo(Issues, MaxIssues) \ {<<>>}

\* ------------------------------------------------------- safeParse results
NoData == [dosingProfiles |-> None, complaintCategories |-> None]
NoResult == [success |-> FALSE, data |-> NoData, issues |-> <<>>]
Success(d) == [success |-> TRUE, data |-> d, issues |-> <<>>]
Failure(is) == [success |-> FALSE, data |-> NoData, issues |-> is]
Outcomes == {Success(d) : d \in Records} \cup {Failure(is) : is \in IssueLists}
\* the few outcomes the two-caller specification draws from
FewOutcomes ==
  {Success(d) : d \in Inputs}
    \cup {Failure(<<is>>) : is \in Issues}
    \cup {Failure(<<Issue(<<Key("name")>>, "Required"), Issue(<<>>, "Expected object")>>)}

\* ------------------------------------------------------------------ state
Callers == {"c1", "c2"}
Cells == Callers \X {"errors", "warnings"}
NoReturn == [isValid |-> FALSE, errors |-> <<"-">>, warnings |-> <<"-">>]

VARIABLES
  pc,          \* pc[p]: the statement caller p is at
  medication,  \* medication[p]: the caller's record, passed as the argument
  given,       \* given[p]: what medication[p] was when p called first
  arrays,      \* arrays[c]: contents of array cell c
  result,      \* result[p]: what safeParse returned to p
  i,           \* i[p]: the loop variable of line 25
  ret,         \* ret[p]: the ValidationResult p got back
  again,       \* again[p]: p is calling a second time on the same record
  first        \* first[p]: what p's first call returned

vars == <<pc, medication, given, arrays, result, i, ret, again, first>>


TypeOK ==
  /\ pc \in [Callers -> {"idle", "safeParse", "issues", "profiles", "loop",
                         "categories", "return", "returned", "threw"}]
  /\ medication \in [Callers -> Records \cup Inputs]
  /\ given \in [Callers -> Records \cup Inputs]
  /\ DOMAIN arrays = Cells
  /\ result \in [Callers -> Outcomes \cup FewOutcomes \cup {NoResult}]
  /\ i \in [Callers -> 0..MaxProfiles]
  /\ again \in [Callers -> BOOLEAN]

Init ==
  /\ pc = [p \in Callers |-> "idle"]
  /\ medication = [p \in Callers |-> NoData]
  /\ given = [p \in Callers |-> NoData]
  /\ arrays = [c \in Cells |-> <<>>]
  /\ result = [p \in Callers |-> NoResult]
  /\ i = [p \in Callers |-> 0]
  /\ ret = [p \in Callers |-> NoReturn]
  /\ again = [p \in Callers |-> FALSE]
  /\ first = [p \in Callers |-> NoReturn]

\* ------------------------------------------------- the function's helpers
\* String(segment) of line 20: a number becomes its decimal digits
String(seg) == IF seg.isNum THEN ToString(seg.num) ELSE seg.str

\* the path with String mapped over it
pathStrings(path) == [k \in 1..Len(path) |-> String(path[k])]

\* Array.prototype.join
RECURSIVE join(_, _)
join(strs, sep) ==
  IF Len(strs) = 0 THEN ""
  ELSE IF Len(strs) = 1 THEN strs[1]
  ELSE strs[1] \o sep \o join(Tail(strs), sep)

\* the template literal of line 20
formatIssueNoSeparator(e) == join(pathStrings(e.path), "") \o ": " \o e.message
formatIssue(e) == join(pathStrings(e.path), ".") \o ": " \o e.message

\* the argument of errors.push on line 20: every issue, in order
issueStrings(issues) == [k \in 1..Len(issues) |-> formatIssue(issues[k])]

\* the template literal of line 33; idx is the 0-based loop variable
profileMessage(idx) ==
  "Dosing profile #" \o ToString(idx + 1) \o ": Minimum age must be less than maximum age"

\* the record the business rules read (line 23)
validatedDataRaw(med, r) == med
validatedData(med, r) == r.data

\* line 24: `if (validatedData.dosingProfiles)`; an array is truthy even
\* when it is empty
profilesGuardMissing(d) == TRUE
profilesGuard(d) == defined(d.dosingProfiles)

\* lines 27-32, evaluated left to right: "push" when the condition holds,
\* "skip" when it does not, "throw" when a property of undefined is read
ageRuleStrict(profile) ==
  IF ~defined(profile) THEN "skip"
  ELSE IF ~defined(profile[1].minAge) THEN "skip"
  ELSE IF ~defined(profile[1].maxAge) THEN "skip"
  ELSE IF profile[1].minAge[1] > profile[1].maxAge[1] THEN "push"
  ELSE "skip"
ageRule(profile) ==
  IF ~defined(profile) THEN "skip"
  ELSE IF ~defined(profile[1].minAge) THEN "skip"
  ELSE IF ~defined(profile[1].maxAge) THEN "skip"
  ELSE IF profile[1].minAge[1] >= profile[1].maxAge[1] THEN "push"
  ELSE "skip"

\* line 37: "warn" when the condition holds, "ok" when it does not
categoryRuleAbsentOnly(d) ==
  IF ~defined(d.complaintCategories) THEN "warn" ELSE "ok"
categoryRule(d) ==
  IF ~defined(d.complaintCategories) THEN "warn"
  ELSE IF Len(d.complaintCategories[1]) = 0 THEN "warn"
  ELSE "ok"

\* line 43
isValidNoFindings(errors, warnings) == Len(errors) = 0 /\ Len(warnings) = 0
isValid(errors, warnings) == Len(errors) = 0

\* lines 13-14: each call owns the two arrays it allocates
errorsOfModule(p) == <<"c1", "errors">>
errorsOf(p) == <<p, "errors">>
warningsOf(p) == <<p, "warnings">>
\* `= []`: what a newly declared array holds, whatever the cell held before
newArrayStale(old) == old
newArray(old) == <<>>

\* where control goes after line 20
afterIssuesFallThrough == "profiles"
afterIssues == "return"

\* ---------------------------------------------------------------- actions
push(cell, strs) == arrays' = [arrays EXCEPT ![cell] = @ \o strs]

\* lines 12-14: a caller passes its record; errors and warnings are declared
Call(p, med) ==
  /\ pc[p] \in {"idle", "returned"}
  /\ medication' = [medication EXCEPT ![p] = med]
  /\ given' = [given EXCEPT ![p] = med]
  /\ arrays' = [arrays EXCEPT ![errorsOf(p)] = newArray(@),
                              ![warningsOf(p)] = newArray(@)]
  /\ result' = [result EXCEPT ![p] = NoResult]
  /\ i' = [i EXCEPT ![p] = 0]
  /\ ret' = [ret EXCEPT ![p] = NoReturn]
  /\ again' = [again EXCEPT ![p] = FALSE]
  /\ first' = [first EXCEPT ![p] = NoReturn]
  /\ pc' = [pc EXCEPT ![p] = "safeParse"]

\* lines 12-14 once more: the caller passes the record of the call that
\* just returned, as it now is
CallAgain(p) ==
  /\ pc[p] = "returned"
  /\ arrays' = [arrays EXCEPT ![errorsOf(p)] = newArray(@),
                              ![warningsOf(p)] = newArray(@)]
  /\ i' = [i EXCEPT ![p] = 0]
  /\ first' = [first EXCEPT ![p] = ret[p]]
  /\ ret' = [ret EXCEPT ![p] = NoReturn]
  /\ again' = [again EXCEPT ![p] = TRUE]
  /\ pc' = [pc EXCEPT ![p] = "safeParse"]
  /\ UNCHANGED <<medication, given, result>>

\* lines 17-19: safeParse answers with one of the outcomes O; asked again
\* about the record it has seen, unmodified, it answers as before
SafeParse(p, O) ==
  /\ pc[p] = "safeParse"
  /\ \E r \in (IF again[p] /\ medication[p] = given[p] THEN {result[p]} ELSE O) :
       /\ result' = [result EXCEPT ![p] = r]
       /\ pc' = [pc EXCEPT ![p] = IF r.success THEN "profiles" ELSE "issues"]
  /\ UNCHANGED <<medication, given, arrays, i, ret, again, first>>

\* line 20
PushIssues(p) ==
  /\ pc[p] = "issues"
  /\ push(errorsOf(p), issueStrings(result[p].issues))
  /\ pc' = [pc EXCEPT ![p] = afterIssues]
  /\ UNCHANGED <<medication, given, result, i, ret, again, first>>

\* lines 23-25: the guard, and `let i = 0`
CheckProfiles(p) ==
  /\ pc[p] = "profiles"
  /\ LET d == validatedData(medication[p], result[p]) IN
       IF ~profilesGuard(d)
         THEN pc' = [pc EXCEPT ![p] = "categories"]
         ELSE IF ~defined(d.dosingProfiles)
           THEN pc' = [pc EXCEPT ![p] = "threw"]   \* .length of undefined
           ELSE pc' = [pc EXCEPT ![p] = "loop"]
  /\ i' = [i EXCEPT ![p] = 0]
  /\ UNCHANGED <<medication, given, arrays, result, ret, again, first>>

\* lines 25-35: the loop test and one pass through the body
LoopStep(p) ==
  /\ pc[p] = "loop"
  /\ LET d == validatedData(medication[p], result[p])
         profiles == d.dosingProfiles[1]
     IN IF i[p] < Len(profiles)
          THEN LET verdict == ageRule(profiles[i[p] + 1]) IN
                 /\ IF verdict = "push"
                      THEN push(errorsOf(p), <<profileMessage(i[p])>>)
                      ELSE UNCHANGED arrays
                 /\ IF verdict = "throw"
                      THEN /\ pc' = [pc EXCEPT ![p] = "threw"]
                           /\ UNCHANGED i
                      ELSE /\ i' = [i EXCEPT ![p] = @ + 1]
                           /\ UNCHANGED pc
          ELSE /\ pc' = [pc EXCEPT ![p] = "categories"]
               /\ UNCHANGED <<arrays, i>>
  /\ UNCHANGED <<medication, given, result, ret, again, first>>

\* lines 37-39, with the record written back to the argument
CheckCategoriesInPlace(p) ==
  /\ pc[p] = "categories"
  /\ LET d == validatedData(medication[p], result[p]) IN
       IF categoryRule(d) = "warn"
         THEN push(warningsOf(p), <<"No complaint categories assigned">>)
         ELSE UNCHANGED arrays
  /\ medication' = [medication EXCEPT ![p] = validatedData(medication[p], result[p])]
  /\ pc' = [pc EXCEPT ![p] = "return"]
  /\ UNCHANGED <<given, result, i, ret, again, first>>

\* lines 37-39
CheckCategories(p) ==
  /\ pc[p] = "categories"
  /\ LET d == validatedData(medication[p], result[p]) IN
       IF categoryRule(d) = "warn"
         THEN push(warningsOf(p), <<"No complaint categories assigned">>)
         ELSE UNCHANGED arrays
  /\ pc' = [pc EXCEPT ![p] = "return"]
  /\ UNCHANGED <<medication, given, result, i, ret, again, first>>

\* lines 42-46
Return(p) ==
  /\ pc[p] = "return"
  /\ ret' = [ret EXCEPT ![p] =
               [isValid |-> isValid(arrays[errorsOf(p)], arrays[warningsOf(p)]),
                errors |-> arrays[errorsOf(p)],
                warnings |-> arrays[warningsOf(p)]]]
  /\ pc' = [pc EXCEPT ![p] = "returned"]
  /\ UNCHANGED <<medication, given, arrays, result, i, again, first>>

\* One caller, any validated record and any issue list.
Next ==
  \/ \E med \in Inputs : Call("c1", med)
  \/ CallAgain("c1")
  \/ SafeParse("c1", Outcomes)
  \/ PushIssues("c1")
  \/ CheckProfiles("c1")
  \/ LoopStep("c1")
  \/ CheckCategories("c1")
  \/ Return("c1")

Spec == Init /\ [][Next]_vars

\* Two callers whose statements interleave in every order.
NextConc ==
  \E p \in Callers :
    \/ \E med \in Inputs : Call(p, med)
    \/ CallAgain(p)
    \/ SafeParse(p, FewOutcomes)
    \/ PushIssues(p)
    \/ CheckProfiles(p)
    \/ LoopStep(p)
    \/ CheckCategories(p)
    \/ Return(p)

SpecConc == Init /\ [][NextConc]_vars

\* ----------------------------------------------------------------- claims
Returned(p) == pc[p] = "returned"
ProfileText(k) ==
  "Dosing profile #" \o ToString(k) \o ": Minimum age must be less than maximum age"
CategoryText == "No complaint categories assigned"

\* the 1-based positions whose profile has both bounds and minAge >= maxAge
Offending(d) ==
  IF d.dosingProfiles = None THEN {}
  ELSE {k \in 1..Len(d.dosingProfiles[1]) :
          /\ d.dosingProfiles[1][k] # None
          /\ d.dosingProfiles[1][k][1].minAge # None
          /\ d.dosingProfiles[1][k][1].maxAge # None
          /\ d.dosingProfiles[1][k][1].minAge[1] >= d.dosingProfiles[1][k][1].maxAge[1]}
\* S's elements in increasing order
Ascending(S) ==
  [j \in 1..Cardinality(S) |-> CHOOSE k \in S : Cardinality({m \in S : m <= k}) = j]
ExpectedErrors(d) == [j \in 1..Cardinality(Offending(d)) |-> ProfileText(Ascending(Offending(d))[j])]
ExpectedWarnings(d) ==
  IF d.complaintCategories = None \/ d.complaintCategories = Some(<<>>)
    THEN <<CategoryText>> ELSE <<>>
\* an issue as spec.md section 4.1 step 2 writes it
Rendered(e) ==
  CASE e.path = <<>> -> ": " \o e.message
    [] e.path = <<Key("name")>> -> "name: " \o e.message
    [] e.path = <<Key("dosingProfiles"), Index(0), Key("minAge")>>
         -> "dosingProfiles.0.minAge: " \o e.message
IssueTexts == {Rendered(e) : e \in Issues}
ProfileTexts == {ProfileText(k) : k \in 1..(MaxProfiles + 1)}
Entries(s) == {s[k] : k \in 1..Len(s)}

\* C1: in every returned result isValid is true exactly when errors is
\* empty, whatever safeParse answered and whatever warnings holds.
C1_IsValidIffNoErrors ==
  \A p \in Callers : Returned(p) => (ret[p].isValid <=> ret[p].errors = <<>>)
C1_Witness ==
  /\ Returned("c1") /\ ret["c1"].isValid /\ ret["c1"].warnings # <<>>
  /\ ret["c1"].errors = <<>>

\* C2: no call throws, and a call that has started returns: while it runs
\* it always has a next statement to execute, and every statement it
\* executes brings it closer to its return (a later stage of the function,
\* or one profile fewer left in the loop).  What it returns is a
\* ValidationResult, and a record the schema rejects shows up in errors
\* only (warnings stays empty).
Running(p) == pc[p] \in {"safeParse", "issues", "profiles", "loop", "categories", "return"}
Stage(st) ==
  CASE st = "safeParse" -> 5
    [] st \in {"issues", "profiles"} -> 4
    [] st = "loop" -> 3
    [] st = "categories" -> 2
    [] st = "return" -> 1
    [] OTHER -> 0
ProfilesLeft(st, r, idx) ==
  IF st = "loop" THEN Len(r.data.dosingProfiles[1]) - idx ELSE 0
C2_ResultShape ==
  \A p \in Callers :
    /\ pc[p] # "threw"
    /\ Running(p) =>
         ENABLED (\/ SafeParse(p, Outcomes) \/ PushIssues(p) \/ CheckProfiles(p)
                  \/ LoopStep(p) \/ CheckCategories(p) \/ Return(p))
    /\ Returned(p) =>
         /\ DOMAIN ret[p] = {"isValid", "errors", "warnings"}
         /\ ret[p].isValid \in BOOLEAN
         /\ ~result[p].success => (ret[p].errors # <<>> /\ ret[p].warnings = <<>>)
C2_CloserToReturn ==
  \A p \in Callers :
    (Running(p) /\ <<pc[p], i[p], result[p]>>' # <<pc[p], i[p], result[p]>>) =>
      \/ Stage(pc'[p]) < Stage(pc[p])
      \/ /\ Stage(pc'[p]) = Stage(pc[p])
         /\ ProfilesLeft(pc'[p], result'[p], i'[p]) < ProfilesLeft(pc[p], result[p], i[p])
C2_NeverThrowsAlwaysReturns == []C2_ResultShape /\ [][C2_CloserToReturn]_vars
C2_Witness ==
  /\ Returned("c1") /\ ~result["c1"].success /\ Len(ret["c1"].errors) = 2
  /\ ret["c1"].warnings = <<>>

\* C3: after a schema failure with issues I, isValid is false and errors is
\* the list of the issues, the k-th written "<path joined by dots>: <message>".
C3_IssuesBecomeErrors ==
  \A p \in Callers :
    (Returned(p) /\ ~result[p].success) =>
      /\ ~ret[p].isValid
      /\ Len(ret[p].errors) = Len(result[p].issues)
      /\ \A k \in 1..Len(result[p].issues) :
           ret[p].errors[k] = Rendered(result[p].issues[k])
C3_Witness ==
  /\ Returned("c1") /\ ~result["c1"].success
  /\ ret["c1"].errors = <<"dosingProfiles.0.minAge: Expected number", "name: Required">>

\* C4: after schema success errors is exactly one "Dosing profile #i: ..."
\* entry per offending 1-based position i (both ages present, minAge >=
\* maxAge), in increasing order; after schema failure errors has no such entry.
C4_ProfileErrors ==
  \A p \in Callers :
    Returned(p) =>
      IF result[p].success
        THEN ret[p].errors = ExpectedErrors(result[p].data)
        ELSE Entries(ret[p].errors) \cap ProfileTexts = {}
C4_Witness ==
  /\ Returned("c1") /\ result["c1"].success
  /\ result["c1"].data.dosingProfiles = Some(<<Prof(Some(0), Some(0)), Prof(Some(1), Some(0))>>)
  /\ ret["c1"].errors = <<ProfileText(1), ProfileText(2)>>

\* C5: after schema success warnings is the single category warning when
\* complaintCategories is absent or empty and is empty otherwise, and isValid
\* depends on the dosing profiles alone.
C5_CategoryWarning ==
  \A p \in Callers :
    (Returned(p) /\ result[p].success) =>
      /\ ret[p].warnings = ExpectedWarnings(result[p].data)
      /\ ret[p].isValid <=> (Offending(result[p].data) = {})
C5_Witness ==
  /\ Returned("c1") /\ result["c1"].success
  /\ result["c1"].data.complaintCategories = Some(<<>>)
  /\ ret["c1"].warnings = <<CategoryText>> /\ ret["c1"].isValid

\* C6: after a schema failure no business rule has run: warnings is empty
\* and errors holds issue strings only; no result mixes the two kinds.
C6_NoRulesAfterFailure ==
  \A p \in Callers :
    Returned(p) =>
      /\ ~result[p].success =>
           /\ ret[p].warnings = <<>>
           /\ Entries(ret[p].errors) \subseteq IssueTexts
      /\ ~(/\ Entries(ret[p].errors) \cap ProfileTexts # {}
           /\ Entries(ret[p].errors) \cap IssueTexts # {})
C6_Witness ==
  /\ Returned("c1") /\ ~result["c1"].success
  /\ Offending(medication["c1"]) # {}
  /\ medication["c1"].complaintCategories = None

\* C7: a second call on the same unmodified record returns what the first
\* call returned.
C7_SameResultTwice ==
  \A p \in Callers :
    (Returned(p) /\ again[p] /\ medication[p] = given[p]) => ret[p] = first[p]
C7_Witness ==
  /\ Returned("c1") /\ again["c1"]
  /\ ret["c1"].errors # <<>> /\ ret["c1"].warnings # <<>>

\* C8: the argument is never written, and a caller that has not called has
\* had nothing written to its arrays.
C8_ArgumentUntouched ==
  \A p \in Callers :
    /\ medication[p] = given[p]
    /\ pc[p] = "idle" => (arrays[<<p, "errors">>] = <<>> /\ arrays[<<p, "warnings">>] = <<>>)
C8_Witness ==
  /\ Returned("c1") /\ result["c1"].success
  /\ result["c1"].data # medication["c1"]
  /\ ret["c1"].errors # <<>> /\ ret["c1"].warnings # <<>>

\* C9: with the statements of two calls interleaved in any order, each call
\* returns what it would have returned alone.
Alone(r) ==
  IF r.success
    THEN [isValid |-> Offending(r.data) = {},
          errors |-> ExpectedErrors(r.data),
          warnings |-> ExpectedWarnings(r.data)]
    ELSE [isValid |-> FALSE,
          errors |-> [k \in 1..Len(r.issues) |-> Rendered(r.issues[k])],
          warnings |-> <<>>]
C9_InterleavingsAgree ==
  \A p \in Callers : Returned(p) => ret[p] = Alone(result[p])
C9_Witness ==
  /\ pc["c1"] = "loop" /\ i["c1"] = 1 /\ arrays[<<"c1", "errors">>] = <<ProfileText(1)>>
  /\ pc["c2"] = "return" /\ ~result["c2"].success
  /\ Len(arrays[<<"c2", "errors">>]) = 2

\* C10: when the validated record differs from the argument, errors and
\* warnings follow the validated record.
C10_RulesReadValidatedData ==
  \A p \in Callers :
    (Returned(p) /\ result[p].success /\ result[p].data # medication[p]) =>
      /\ ret[p].errors = ExpectedErrors(result[p].data)
      /\ ret[p].warnings = ExpectedWarnings(result[p].data)
C10_Witness ==
  /\ Returned("c1") /\ result["c1"].success
  /\ Offending(result["c1"].data) # Offending(medication["c1"])
  /\ ExpectedWarnings(result["c1"].data) # ExpectedWarnings(medication["c1"])

====
